---- MODULE Spec2Model ----
(***************************************************************************)
(* Model of the Airtable automation scripts of smoothnlp/airtable_api:     *)
(*   src/mymap_airtable_api.js  (create_map_image, ai_generate,            *)
(*                               translate_i18n, google_search,            *)
(*                               crawl_url_content, sync_to_wordpress)     *)
(*   src/unnamed/part_000       (a second copy of ai_generate,             *)
(*                               translate_i18n, google_search,            *)
(*                               crawl_url_content)                        *)
(* One script run (an invocation) is a cooperative, single-threaded        *)
(* computation that suspends at its awaits.  An action of the model is the *)
(* code that runs between two awaits: the resumption of the function       *)
(* together with everything it does up to its next await, its return or    *)
(* its throw.  The record store and the job endpoints are the environment. *)
(***************************************************************************)
EXTENDS Integers, Sequences, FiniteSets, TLC

VARIABLES
    tableFields,    \* the fields of the table, in creation order (names)
    cells,          \* the record's cells: field name -> value
    calls,          \* number of script runs started so far
    fn,             \* the function of the current run, "none" between runs
    file,           \* the source file whose copy of fn runs
    args,           \* the arguments of the current run
    pc,             \* the await the current run is suspended at
    record,         \* local `record`: the cells as fetched by selectRecord(s)Async
    posts,          \* the HTTP POSTs issued by the current run, in order
    fetchPromise,   \* the promise of the latest fetch
    timeoutPromise, \* create_map_image's timeoutPromise
    race,           \* create_map_image's Promise.race
    outcome,        \* how the run ended: none yet, ok, or the error thrown
    raised,         \* the errors raised inside the current run, in order
    events,         \* the environment events delivered to the current run
    langIdx,        \* translate_i18n: position of the for-of loop in languages
    createLog,      \* every createFieldAsync call: [call, name, state]
    run,            \* the number of the current run, 0 between runs
    steps,          \* sync_to_wordpress: the store calls of the current run, in order
    other           \* a second script run, suspended at one of its awaits

vars == <<tableFields, cells, calls, fn, file, args, pc, record, posts,
          fetchPromise, timeoutPromise, race, outcome, raised, events,
          langIdx, createLog, run, steps, other>>

---------------------------------------------------------------------------
(* Bounds of the model *)

\* script runs in one behaviour
MaxCalls == 2
\* longest `languages` argument of translate_i18n
MaxLangs == 2

---------------------------------------------------------------------------
(* Values *)

\* JavaScript null (an empty cell)
Null == "<null>"

\* !v for the cell values of the model (null and the empty string are falsy)
Falsy(v) == v \in {Null, ""}

\* a promise: pending, fulfilled with a response status, or rejected with an error
NoPromise == [state |-> "none", status |-> 0, msg |-> ""]
Pending == [state |-> "pending", status |-> 0, msg |-> ""]
Fulfilled(status) == [state |-> "fulfilled", status |-> status, msg |-> ""]
Rejected(msg) == [state |-> "rejected", status |-> 0, msg |-> msg]

\* the outcome of a run
NoOutcome == [kind |-> "none", msg |-> ""]
Returned == [kind |-> "ok", msg |-> ""]
Thrown(msg) == [kind |-> "error", msg |-> msg]

\* HTTP statuses the endpoints answer with
Statuses == {200, 201, 404, 500}

\* response.ok of the Fetch API: the status is in the range 200-299
ResponseOk(status) == status >= 200 /\ status <= 299

\* the TypeError fetch rejects with on a network failure
NetworkError == "Failed to fetch"

---------------------------------------------------------------------------
(* The record store *)

\* the columns every table of the model has
BaseFields == <<"tpl", "prompt", "blank", "unset", "input", "en", "fr", "de", "es", "author">>

\* a valid and an invalid JSON document of a content column
ValidJson == "{\"title\":\"t\"}"
BadJson == "{title"

\* the cells of the base columns of the one record
BaseCells ==
    [f \in {BaseFields[i] : i \in 1..Len(BaseFields)} |->
        CASE f = "tpl" -> "castle"
          [] f = "prompt" -> "sunset"
          [] f = "blank" -> ""
          [] f = "unset" -> Null
          [] f = "input" -> "kw"
          [] f = "en" -> ValidJson
          [] f = "fr" -> ValidJson
          [] f = "de" -> Null
          [] f = "es" -> BadJson
          [] f = "author" -> "7"]

\* the post-id columns a table may hold before the first run, with their cell
InitialPostIdFields == {<<>>, <<"post_id_en">>, <<"post_id_fr">>, <<"post_id_en", "post_id_fr">>}
InitialPostId == "42"

Range(s) == {s[i] : i \in 1..Len(s)}

\* f extended (or overridden) at key k with value v
Extend(f, k, v) == [x \in DOMAIN f \cup {k} |-> IF x = k THEN v ELSE f[x]]

\* the rows of the Prompts table: Name and Prompt
PromptsTable == <<[Name |-> "brief", Prompt |-> "be brief"],
                  [Name |-> "empty", Prompt |-> Null],
                  [Name |-> "brief", Prompt |-> "second row"]>>

\* record.getCellValue(field): throws when the record has no such field
HasField(rec, field) == field \in DOMAIN rec
getCellValue(rec, field) == rec[field]
NoFieldError(field) == "No field matching " \o field

\* record.getCellValueAsString(field): an empty cell reads as ""
getCellValueAsString(rec, field) == IF rec[field] = Null THEN "" ELSE rec[field]

---------------------------------------------------------------------------
(* Arguments *)

BaseIds == {"app1", "app2"}
TableIds == {"tbl1"}
RecordIds == {"rec1"}
OutputColumns == {"out1", "out2"}
InputColumns == {"tpl", "prompt", "blank", "unset"}

---------------------------------------------------------------------------
(* Initial state *)

\* the local state of a script run that has not started
NoRun ==
    [fn |-> "none", file |-> "none", args |-> <<>>, pc |-> "idle", record |-> <<>>,
     posts |-> <<>>, fetchPromise |-> NoPromise, timeoutPromise |-> NoPromise,
     race |-> NoPromise, outcome |-> NoOutcome, raised |-> <<>>, events |-> <<>>,
     langIdx |-> 0, run |-> 0, steps |-> <<>>]

Init ==
    /\ \E extra \in InitialPostIdFields :
        /\ tableFields = BaseFields \o extra
        /\ cells = [f \in Range(BaseFields) \cup Range(extra) |->
                        IF f \in Range(BaseFields) THEN BaseCells[f] ELSE InitialPostId]
    /\ calls = 0
    /\ fn = "none"
    /\ file = "none"
    /\ args = <<>>
    /\ pc = "idle"
    /\ record = <<>>
    /\ posts = <<>>
    /\ fetchPromise = NoPromise
    /\ timeoutPromise = NoPromise
    /\ race = NoPromise
    /\ outcome = NoOutcome
    /\ raised = <<>>
    /\ events = <<>>
    /\ langIdx = 0
    /\ createLog = <<>>
    /\ run = 0
    /\ steps = <<>>
    /\ other = NoRun

\* a script run starts: fn is called with arguments a; it runs to its first await
Start(f, src, a, at) ==
    /\ pc = "idle"
    /\ calls < MaxCalls
    /\ calls' = calls + 1
    /\ fn' = f
    /\ file' = src
    /\ args' = a
    /\ pc' = at
    /\ run' = calls + 1
    /\ UNCHANGED <<tableFields, cells, record, posts, fetchPromise, timeoutPromise,
                   race, outcome, raised, events, langIdx, createLog, steps, other>>

\* the run ends by throwing error msg
Throw(msg) ==
    /\ outcome' = Thrown(msg)
    /\ raised' = Append(raised, msg)
    /\ pc' = "done"

\* an error raised outside any try block: it leaves the function
Uncaught(msg) == Throw(msg)

\* a catch block that logs and does not rethrow
CatchSwallow(msg) ==
    /\ outcome' = Returned
    /\ raised' = Append(raised, msg)
    /\ pc' = "done"

\* an error raised inside try { ... } catch (error) { console.error(...); throw error; }
CatchRethrow(msg) == Throw(msg)

\* the run ends by returning
Return ==
    /\ outcome' = Returned
    /\ raised' = raised
    /\ pc' = "done"

\* fetch(endpoint, {method: 'POST', body: JSON.stringify(body)})
Post(endpoint, body) ==
    /\ posts' = Append(posts, [endpoint |-> endpoint, method |-> "POST", body |-> body])
    /\ fetchPromise' = Pending

---------------------------------------------------------------------------
(* create_map_image *)

CREATE_MAP_API_ENDPOINT == "https://jobs.mymap.ai/jobs/new_map_image/run"
TIMEOUT == 120000

TimeoutError == "Request timed out after " \o ToString(TIMEOUT \div 1000) \o " seconds"
StatusError(status) == "API request failed with status " \o ToString(status)

create_map_image_Call ==
    /\ fn = "none"
    /\ \E tc \in InputColumns, pcol \in InputColumns, oc \in OutputColumns,
       r \in RecordIds, t \in TableIds, b \in BaseIds :
        Start("create_map_image", "main",
              [tpl_column |-> tc, prompt_column |-> pcol, output_column |-> oc,
               record_id |-> r, table_id |-> t, base_id |-> b], "cmi_select")

\* the condition written with && in place of ||
MissingTplAndPrompt(tpl, prompt) == Falsy(tpl) /\ Falsy(prompt)

\* if (!tpl || !prompt)
MissingTplOrPrompt(tpl, prompt) == Falsy(tpl) \/ Falsy(prompt)

create_map_image_Body(a, tpl, prompt) ==
    [base_id |-> a.base_id, table_id |-> a.table_id, record_id |-> a.record_id,
     output_column |-> a.output_column,
     visuals |-> <<[tpl |-> tpl, prompt |-> prompt]>>]

\* selectRecordsAsync resolves: read the cells, validate, start timer and fetch, await the race
create_map_image_Selected ==
    /\ pc = "cmi_select"
    /\ record' = cells
    /\ LET tpl == getCellValue(cells, args.tpl_column)
           prompt == getCellValue(cells, args.prompt_column)
       IN IF MissingTplOrPrompt(tpl, prompt)
          THEN /\ Uncaught("Missing template or prompt")
               /\ UNCHANGED <<posts, fetchPromise, timeoutPromise, race>>
          ELSE /\ timeoutPromise' = Pending
               /\ Post(CREATE_MAP_API_ENDPOINT, create_map_image_Body(args, tpl, prompt))
               /\ race' = Pending
               /\ pc' = "cmi_race"
               /\ UNCHANGED <<outcome, raised>>
    /\ UNCHANGED <<tableFields, cells, calls, fn, file, args, events, langIdx, createLog>>
    /\ UNCHANGED <<run, steps, other>>

\* a race that lets every settlement through, not only the first
RaceLast(current, settlement) == settlement

\* a race over the fetch alone: the rejection of timeoutPromise does not settle it
RaceWithoutTimer(current, settlement) ==
    IF current.state = "pending" /\ settlement.msg # TimeoutError THEN settlement ELSE current

\* Promise.race: settled by the first of its promises to settle, and only once
RaceSettle(current, settlement) ==
    IF current.state = "pending" THEN settlement ELSE current

\* a continuation that drops a rejection of the race instead of rethrowing it
create_map_image_AfterRace_DropRejection(settled) ==
    IF settled.state = "fulfilled" /\ ~ResponseOk(settled.status)
    THEN CatchRethrow(StatusError(settled.status))
    ELSE Return

\* the code after `await Promise.race(...)`, run when the race settles
create_map_image_AfterRace(settled) ==
    IF settled.state = "rejected"
    THEN CatchRethrow(settled.msg)
    ELSE IF ~ResponseOk(settled.status)
         THEN CatchRethrow(StatusError(settled.status))
         ELSE Return

\* a promise of create_map_image settles; the function resumes when that settles the race
create_map_image_Settle(settlement) ==
    /\ race' = RaceSettle(race, settlement)
    /\ IF race' # race
       THEN create_map_image_AfterRace(race')
       ELSE UNCHANGED <<outcome, raised, pc>>

\* the endpoint answers the POST of create_map_image
create_map_image_Response ==
    /\ fn = "create_map_image"
    /\ fetchPromise.state = "pending"
    /\ \E s \in Statuses :
        /\ fetchPromise' = Fulfilled(s)
        /\ create_map_image_Settle(Fulfilled(s))
    /\ events' = Append(events, "response")
    /\ UNCHANGED <<tableFields, cells, calls, fn, file, args, record, posts,
                   timeoutPromise, langIdx, createLog>>
    /\ UNCHANGED <<run, steps, other>>

\* the POST of create_map_image fails on the network
create_map_image_NetworkError ==
    /\ fn = "create_map_image"
    /\ fetchPromise.state = "pending"
    /\ fetchPromise' = Rejected(NetworkError)
    /\ create_map_image_Settle(Rejected(NetworkError))
    /\ events' = Append(events, "neterror")
    /\ UNCHANGED <<tableFields, cells, calls, fn, file, args, record, posts,
                   timeoutPromise, langIdx, createLog>>
    /\ UNCHANGED <<run, steps, other>>

\* the setTimeout callback runs: clearTimeout(id); reject(new Error(...))
create_map_image_Timer ==
    /\ fn = "create_map_image"
    /\ timeoutPromise.state = "pending"
    /\ timeoutPromise' = Rejected(TimeoutError)
    /\ create_map_image_Settle(Rejected(TimeoutError))
    /\ events' = Append(events, "timer")
    /\ UNCHANGED <<tableFields, cells, calls, fn, file, args, record, posts,
                   fetchPromise, langIdx, createLog>>
    /\ UNCHANGED <<run, steps, other>>

---------------------------------------------------------------------------
(* ai_generate (both files hold the same code) *)

AI_GENERATE_ENDPOINT == "https://jobs.mymap.ai/job/ai2col/run"
Files == {"main", "part_000"}
PromptNames == {"brief", "empty", "absent"}
InputColumnLists == {<<>>, <<"tpl">>, <<"tpl", "unset">>}
Models == {"gpt-4o"}

\* getSystemPrompt(promptName): the Prompt of the first row whose Name matches, else null
getSystemPrompt(promptName) ==
    LET matchingRecords ==
            SelectSeq(PromptsTable, LAMBDA r : getCellValueAsString(r, "Name") = promptName)
    IN IF Len(matchingRecords) > 0
       THEN getCellValue(matchingRecords[1], "Prompt")
       ELSE Null

\* the test of the prompt left out
SystemPromptNeverMissing(system_prompt) == FALSE

\* if (!system_prompt)
SystemPromptMissing(system_prompt) == Falsy(system_prompt)

PromptError(name) == "Failed to retrieve system prompt: " \o name

\* input_columns.map(column => `<${column}>${value}</${column}>`).join("\n")
RECURSIVE JoinLines(_)
JoinLines(lines) ==
    IF Len(lines) = 0 THEN ""
    ELSE IF Len(lines) = 1 THEN lines[1]
    ELSE lines[1] \o "\n" \o JoinLines(Tail(lines))

UserMsg(rec, input_columns) ==
    JoinLines([i \in 1..Len(input_columns) |->
        "<" \o input_columns[i] \o ">" \o getCellValueAsString(rec, input_columns[i])
            \o "</" \o input_columns[i] \o ">"])

ai_generate_Body(a, system_prompt, user_msg) ==
    [base_id |-> a.base_id, table_id |-> a.table_id, record_id |-> a.record_id,
     output_column |-> a.output_column, model |-> a.model,
     system_prompt |-> system_prompt, user_msg |-> user_msg,
     openai_json_format |-> a.openai_json_format]

ai_generate_Call ==
    /\ fn = "none"
    /\ \E src \in Files, ic \in InputColumnLists, pn \in PromptNames, oc \in OutputColumns,
       r \in RecordIds, t \in TableIds, b \in BaseIds, m \in Models, jf \in BOOLEAN :
        Start("ai_generate", src,
              [input_columns |-> ic, system_prompt_name |-> pn, output_column |-> oc,
               record_id |-> r, table_id |-> t, base_id |-> b, model |-> m,
               openai_json_format |-> jf], "ag_prompts")

\* the query of the Prompts table resolves: getSystemPrompt returns, the prompt is checked
ai_generate_PromptsSelected ==
    /\ pc = "ag_prompts"
    /\ IF SystemPromptMissing(getSystemPrompt(args.system_prompt_name))
       THEN Uncaught(PromptError(args.system_prompt_name))
       ELSE /\ pc' = "ag_select"
            /\ UNCHANGED <<outcome, raised>>
    /\ UNCHANGED <<tableFields, cells, calls, fn, file, args, record, posts, fetchPromise,
                   timeoutPromise, race, events, langIdx, createLog>>
    /\ UNCHANGED <<run, steps, other>>

\* selectRecordAsync resolves: build user_msg and POST
ai_generate_Selected ==
    /\ pc = "ag_select"
    /\ record' = cells
    /\ Post(AI_GENERATE_ENDPOINT,
            ai_generate_Body(args, getSystemPrompt(args.system_prompt_name),
                             UserMsg(cells, args.input_columns)))
    /\ pc' = "ag_fetch"
    /\ UNCHANGED <<tableFields, cells, calls, fn, file, args, timeoutPromise, race,
                   outcome, raised, events, langIdx, createLog>>
    /\ UNCHANGED <<run, steps, other>>

\* the code after `await fetch(...)` of ai_generate: the response is not inspected
ai_generate_AfterFetch(status) == Return

\* the endpoint answers the POST of ai_generate
ai_generate_Response ==
    /\ pc = "ag_fetch"
    /\ \E s \in Statuses :
        /\ fetchPromise' = Fulfilled(s)
        /\ ai_generate_AfterFetch(s)
    /\ events' = Append(events, "response")
    /\ UNCHANGED <<tableFields, cells, calls, fn, file, args, record, posts,
                   timeoutPromise, race, langIdx, createLog>>
    /\ UNCHANGED <<run, steps, other>>

\* the POST of ai_generate fails on the network
ai_generate_NetworkError ==
    /\ pc = "ag_fetch"
    /\ fetchPromise' = Rejected(NetworkError)
    /\ Uncaught(NetworkError)
    /\ events' = Append(events, "neterror")
    /\ UNCHANGED <<tableFields, cells, calls, fn, file, args, record, posts,
                   timeoutPromise, race, langIdx, createLog>>
    /\ UNCHANGED <<run, steps, other>>

---------------------------------------------------------------------------
(* google_search (both files hold the same code) *)

SEARCH_API_ENDPOINT == "https://jobs.mymap.ai/job/keywords_search/run"

google_search_Body(a, keywords) ==
    [base_id |-> a.base_id, table_id |-> a.table_id, record_id |-> a.record_id,
     output_column |-> a.output_column, keywords |-> keywords]

google_search_Call ==
    /\ fn = "none"
    /\ \E src \in Files, ic \in InputColumns, oc \in OutputColumns,
       r \in RecordIds, t \in TableIds, b \in BaseIds :
        Start("google_search", src,
              [input_column |-> ic, output_column |-> oc,
               record_id |-> r, table_id |-> t, base_id |-> b], "gs_select")

\* if (!keywords)
NoKeywords(keywords) == Falsy(keywords)

\* selectRecordAsync resolves: read the keywords, validate, POST
google_search_Selected ==
    /\ pc = "gs_select"
    /\ record' = cells
    /\ LET keywords == getCellValueAsString(cells, args.input_column)
       IN IF NoKeywords(keywords)
          THEN /\ Uncaught("No keywords found")
               /\ UNCHANGED <<posts, fetchPromise>>
          ELSE /\ Post(SEARCH_API_ENDPOINT, google_search_Body(args, keywords))
               /\ pc' = "gs_fetch"
               /\ UNCHANGED <<outcome, raised>>
    /\ UNCHANGED <<tableFields, cells, calls, fn, file, args, timeoutPromise, race,
                   events, langIdx, createLog>>
    /\ UNCHANGED <<run, steps, other>>

\* the code after `await fetch(...)` of google_search: the response is not inspected
google_search_AfterFetch(status) == Return

\* the endpoint answers the POST of google_search
google_search_Response ==
    /\ pc = "gs_fetch"
    /\ \E s \in Statuses :
        /\ fetchPromise' = Fulfilled(s)
        /\ google_search_AfterFetch(s)
    /\ events' = Append(events, "response")
    /\ UNCHANGED <<tableFields, cells, calls, fn, file, args, record, posts,
                   timeoutPromise, race, langIdx, createLog>>
    /\ UNCHANGED <<run, steps, other>>

\* the POST of google_search fails on the network
google_search_NetworkError ==
    /\ pc = "gs_fetch"
    /\ fetchPromise' = Rejected(NetworkError)
    /\ Uncaught(NetworkError)
    /\ events' = Append(events, "neterror")
    /\ UNCHANGED <<tableFields, cells, calls, fn, file, args, record, posts,
                   timeoutPromise, race, langIdx, createLog>>
    /\ UNCHANGED <<run, steps, other>>

---------------------------------------------------------------------------
(* crawl_url_content (both files hold the same code) *)

CRAWL_URL_API_ENDPOINT == "https://jobs.mymap.ai/job/url2text/run"

crawl_url_content_Body(a, url) ==
    [base_id |-> a.base_id, table_id |-> a.table_id, record_id |-> a.record_id,
     output_column |-> a.output_column, url |-> url]

crawl_url_content_Call ==
    /\ fn = "none"
    /\ \E src \in Files, ic \in InputColumns, oc \in OutputColumns,
       r \in RecordIds, t \in TableIds, b \in BaseIds :
        Start("crawl_url_content", src,
              [input_column |-> ic, output_column |-> oc,
               record_id |-> r, table_id |-> t, base_id |-> b], "cu_select")

\* if (!url)
NoUrl(url) == Falsy(url)

\* selectRecordsAsync resolves: read the URL, validate, POST
crawl_url_content_Selected ==
    /\ pc = "cu_select"
    /\ record' = cells
    /\ LET url == getCellValue(cells, args.input_column)
       IN IF NoUrl(url)
          THEN /\ Uncaught("No URL found")
               /\ UNCHANGED <<posts, fetchPromise>>
          ELSE /\ Post(CRAWL_URL_API_ENDPOINT, crawl_url_content_Body(args, url))
               /\ pc' = "cu_fetch"
               /\ UNCHANGED <<outcome, raised>>
    /\ UNCHANGED <<tableFields, cells, calls, fn, file, args, timeoutPromise, race,
                   events, langIdx, createLog>>
    /\ UNCHANGED <<run, steps, other>>

\* the code after `await fetch(...)` inside a try block that checks response.ok
CheckedAfterFetch(status) ==
    IF ~ResponseOk(status) THEN CatchRethrow(StatusError(status)) ELSE Return

\* the endpoint answers the POST of crawl_url_content
crawl_url_content_Response ==
    /\ pc = "cu_fetch"
    /\ \E s \in Statuses :
        /\ fetchPromise' = Fulfilled(s)
        /\ CheckedAfterFetch(s)
    /\ events' = Append(events, "response")
    /\ UNCHANGED <<tableFields, cells, calls, fn, file, args, record, posts,
                   timeoutPromise, race, langIdx, createLog>>
    /\ UNCHANGED <<run, steps, other>>

\* the POST of crawl_url_content fails on the network
crawl_url_content_NetworkError ==
    /\ pc = "cu_fetch"
    /\ fetchPromise' = Rejected(NetworkError)
    /\ CatchRethrow(NetworkError)
    /\ events' = Append(events, "neterror")
    /\ UNCHANGED <<tableFields, cells, calls, fn, file, args, record, posts,
                   timeoutPromise, race, langIdx, createLog>>
    /\ UNCHANGED <<run, steps, other>>

---------------------------------------------------------------------------
(* translate_i18n (one copy per file; the payloads differ) *)

TRANSLATE_ENDPOINT == "https://jobs.mymap.ai/jobs/ai2col/run"

Languages == {[column |-> "fr", name |-> "French"], [column |-> "de", name |-> "German"]}
LanguageLists == UNION {[1..n -> Languages] : n \in 0..MaxLangs}

\* getSystemPrompt(languageName) of translate_i18n: the template text, abridged
translate_SystemPrompt_main(languageName) ==
    "I am an SEO writing master in " \o languageName \o ". Do not translate the slug key & value"
translate_SystemPrompt_part_000(languageName) ==
    "I am an SEO writing master in " \o languageName \o ". Do not translate the slug key"

\* JSON.stringify of a cell value (null, or a string without characters to escape)
JSONstringify(v) == IF v = Null THEN "null" ELSE "\"" \o v \o "\""

translate_Body_main(a, language, user_msg) ==
    [base_id |-> a.base_id, table_id |-> a.table_id, record_id |-> a.record_id,
     output_column |-> language.column, model |-> a.model,
     system_prompt |-> translate_SystemPrompt_main(language.name),
     user_msg |-> user_msg, openai_json_format |-> TRUE]

translate_Body_part_000(a, language, user_msg) ==
    [base_id |-> a.base_id, table_id |-> a.table_id, record_id |-> a.record_id,
     output_column |-> language.column, model |-> a.model,
     system_prompt |-> translate_SystemPrompt_part_000(language.name),
     user_msg |-> user_msg]

\* the fetch of translateToLanguage(language)
translateToLanguage_Post(src, a, rec, language) ==
    LET user_msg == JSONstringify(getCellValue(rec, a.input_json_column))
    IN Post(TRANSLATE_ENDPOINT,
            IF src = "main" THEN translate_Body_main(a, language, user_msg)
                            ELSE translate_Body_part_000(a, language, user_msg))

translate_i18n_Call ==
    /\ fn = "none"
    /\ \E src \in Files, ic \in {"tpl", "unset"}, ls \in LanguageLists,
       r \in RecordIds, t \in TableIds, b \in BaseIds, m \in Models :
        Start("translate_i18n", src,
              [input_json_column |-> ic, languages |-> ls,
               record_id |-> r, table_id |-> t, base_id |-> b, model |-> m], "tr_select")

\* for (let language of languages): is there a language after position k
HasNextLanguage(languages, k) == k < Len(languages)

\* a loop that starts every remaining translation without awaiting the one before
translate_i18n_LoopAll(rec, k, settled) ==
    IF HasNextLanguage(args.languages, k)
    THEN /\ posts' = posts \o
                [i \in 1..(Len(args.languages) - k) |->
                    [endpoint |-> TRANSLATE_ENDPOINT, method |-> "POST",
                     body |-> translate_Body_main(args, args.languages[k + i],
                                  JSONstringify(getCellValue(rec, args.input_json_column)))]]
         /\ fetchPromise' = Pending
         /\ langIdx' = Len(args.languages)
         /\ pc' = "tr_fetch"
         /\ UNCHANGED <<outcome, raised>>
    ELSE /\ Return
         /\ fetchPromise' = settled
         /\ UNCHANGED <<posts, langIdx>>

\* one step of the for-of loop after k languages are done: translate the next or return
translate_i18n_Loop(rec, k, settled) ==
    IF HasNextLanguage(args.languages, k)
    THEN /\ translateToLanguage_Post(file, args, rec, args.languages[k + 1])
         /\ langIdx' = k + 1
         /\ pc' = "tr_fetch"
         /\ UNCHANGED <<outcome, raised>>
    ELSE /\ Return
         /\ fetchPromise' = settled
         /\ UNCHANGED <<posts, langIdx>>

\* selectRecordAsync resolves: stringify the input, enter the loop
translate_i18n_Selected ==
    /\ pc = "tr_select"
    /\ record' = cells
    /\ translate_i18n_Loop(cells, 0, fetchPromise)
    /\ UNCHANGED <<tableFields, cells, calls, fn, file, args, timeoutPromise, race,
                   events, createLog>>
    /\ UNCHANGED <<run, steps, other>>

TranslateStatusError(status) == "HTTP error! status: " \o ToString(status)

\* a translateToLanguage whose failure does not stop the loop
translateToLanguage_AfterFetch_Continue(status) ==
    translate_i18n_Loop(record, langIdx, Fulfilled(status))

\* the code of translateToLanguage after `await fetch(...)`, then the loop of translate_i18n
translateToLanguage_AfterFetch(status) ==
    IF ~ResponseOk(status)
    THEN /\ CatchRethrow(TranslateStatusError(status))
         /\ fetchPromise' = Fulfilled(status)
         /\ UNCHANGED <<posts, langIdx>>
    ELSE translate_i18n_Loop(record, langIdx, Fulfilled(status))

\* the endpoint answers the POST of translateToLanguage
translate_i18n_Response ==
    /\ pc = "tr_fetch"
    /\ \E s \in Statuses :
        /\ events' = Append(events, IF ResponseOk(s) THEN "response" ELSE "failure")
        /\ translateToLanguage_AfterFetch(s)
    /\ UNCHANGED <<tableFields, cells, calls, fn, file, args, record,
                   timeoutPromise, race, createLog>>
    /\ UNCHANGED <<run, steps, other>>

\* the POST of translateToLanguage fails on the network
translate_i18n_NetworkError ==
    /\ pc = "tr_fetch"
    /\ fetchPromise' = Rejected(NetworkError)
    /\ CatchRethrow(NetworkError)
    /\ events' = Append(events, "neterror")
    /\ UNCHANGED <<tableFields, cells, calls, fn, file, args, record, posts,
                   timeoutPromise, race, langIdx, createLog>>
    /\ UNCHANGED <<run, steps, other>>

---------------------------------------------------------------------------
(* sync_to_wordpress *)

WP_API_ENDPOINT == "https://jobs.mymap.ai/job/wp_post_mymap/run"

Langs == {"en", "fr", "de", "es"}
AuthorColumns == {"author", "unset"}

\* `post_id_${lang}`
PostIdColumn(lang) == "post_id_" \o lang

\* tableConfig.columns.some(column => column.name === post_id_column)
ColumnExists(columns, name) == \E i \in 1..Len(columns) : columns[i] = name

\* JSON.parse of a content cell: an object, or a SyntaxError
ParsesAsJson(text) == text = ValidJson
JSONparse(text) == [title |-> "t"]
JsonSyntaxError == "Unexpected token in JSON"

\* post_id || null
OrNull(v) == IF Falsy(v) THEN Null ELSE v

\* the body with the post-id column hard-coded to the English one
sync_to_wordpress_Body_HardCoded(a, post_data, post_id, post_id_en, author_id) ==
    [post |-> [title |-> post_data.title, id |-> OrNull(post_id), status |-> "publish",
               author |-> author_id, categories |-> <<>>, tags |-> <<>>, meta |-> <<>>],
     post_en_id |-> post_id_en,
     post_lang |-> a.lang,
     base_id |-> a.base_id,
     table_id |-> a.table_id,
     record_id |-> a.record_id,
     post_id_column |-> "post_id_en"]

sync_to_wordpress_Body(a, post_data, post_id, post_id_en, author_id) ==
    [post |-> [title |-> post_data.title, id |-> OrNull(post_id), status |-> "publish",
               author |-> author_id, categories |-> <<>>, tags |-> <<>>, meta |-> <<>>],
     post_en_id |-> post_id_en,
     post_lang |-> a.lang,
     base_id |-> a.base_id,
     table_id |-> a.table_id,
     record_id |-> a.record_id,
     post_id_column |-> PostIdColumn(a.lang)]

sync_to_wordpress_Call ==
    /\ fn = "none"
    /\ \E l \in Langs, ac \in AuthorColumns, r \in RecordIds, t \in TableIds, b \in BaseIds :
        Start("sync_to_wordpress", "main",
              [lang |-> l, author_id_column |-> ac,
               record_id |-> r, table_id |-> t, base_id |-> b], "wp_select")

\* the first selectRecordAsync resolves; getConfigAsync is awaited
sync_to_wordpress_Selected ==
    /\ pc = "wp_select"
    /\ record' = cells
    /\ pc' = "wp_config"
    /\ UNCHANGED <<tableFields, cells, calls, fn, file, args, posts, fetchPromise,
                   timeoutPromise, race, outcome, raised, events, langIdx, createLog>>
    /\ steps' = Append(steps, "select")
    /\ UNCHANGED <<run, other>>

\* the two validations in the other order: the author id first
sync_to_wordpress_Missing_AuthorFirst(post_data, author_id) ==
    IF Falsy(author_id) THEN "No author ID found"
    ELSE IF Falsy(post_data) THEN "No content found"
    ELSE ""

\* the first required input that is missing, "" when none is (content is checked first)
sync_to_wordpress_Missing(post_data, author_id) ==
    IF Falsy(post_data) THEN "No content found"
    ELSE IF Falsy(author_id) THEN "No author ID found"
    ELSE ""

\* the code from the read of the post-id cell to the fetch, on record rec
sync_to_wordpress_ReadAndPost(rec) ==
    LET post_id_column == PostIdColumn(args.lang) IN
    IF ~HasField(rec, post_id_column)
    THEN /\ Uncaught(NoFieldError(post_id_column))
         /\ UNCHANGED <<posts, fetchPromise>>
    ELSE IF ~HasField(rec, "post_id_en")
    THEN /\ Uncaught(NoFieldError("post_id_en"))
         /\ UNCHANGED <<posts, fetchPromise>>
    ELSE LET post_id == getCellValue(rec, post_id_column)
             post_data == getCellValue(rec, args.lang)
             post_id_en == getCellValue(rec, "post_id_en")
             author_id == getCellValue(rec, args.author_id_column)
         IN IF sync_to_wordpress_Missing(post_data, author_id) # ""
            THEN /\ Uncaught(sync_to_wordpress_Missing(post_data, author_id))
                 /\ UNCHANGED <<posts, fetchPromise>>
            ELSE IF ~ParsesAsJson(post_data)
            THEN /\ Uncaught(JsonSyntaxError)
                 /\ UNCHANGED <<posts, fetchPromise>>
            ELSE /\ Post(WP_API_ENDPOINT,
                         sync_to_wordpress_Body(args, JSONparse(post_data), post_id,
                                                post_id_en, author_id))
                 /\ pc' = "wp_fetch"
                 /\ UNCHANGED <<outcome, raised>>

\* the existence test left out: the field is created on every call
NeedsFieldAlways(columns, name) == TRUE

\* if (!tableConfig.columns.some(...)): the field has to be created
NeedsField(columns, name) == ~ColumnExists(columns, name)

\* getConfigAsync resolves: create the field when the table lacks it, else read and POST
sync_to_wordpress_Config ==
    /\ pc = "wp_config"
    /\ IF NeedsField(tableFields, PostIdColumn(args.lang))
       THEN /\ createLog' = Append(createLog, [call |-> run, name |-> PostIdColumn(args.lang),
                                               state |-> "pending"])
            /\ steps' = steps \o <<"getConfig", "createField">>
            /\ pc' = "wp_create"
            /\ UNCHANGED <<posts, fetchPromise, outcome, raised>>
       ELSE /\ sync_to_wordpress_ReadAndPost(record)
            /\ steps' = steps \o <<"getConfig", "read">>
            /\ UNCHANGED createLog
    /\ UNCHANGED <<tableFields, cells, calls, fn, file, args, record, timeoutPromise, race,
                   events, langIdx, run, other>>

\* the state of the createFieldAsync call of the current run becomes st
CreateSettled(st) ==
    [i \in 1..Len(createLog) |->
        IF createLog[i].call = run THEN [createLog[i] EXCEPT !.state = st] ELSE createLog[i]]

\* createFieldAsync resolves and the record is not re-fetched: the cells are read
\* from the record selected before the field was created
sync_to_wordpress_Created_NoRefetch ==
    /\ pc = "wp_create"
    /\ tableFields' = Append(tableFields, PostIdColumn(args.lang))
    /\ cells' = Extend(cells, PostIdColumn(args.lang), Null)
    /\ createLog' = CreateSettled("created")
    /\ sync_to_wordpress_ReadAndPost(record)
    /\ steps' = steps \o <<"created", "read">>
    /\ UNCHANGED <<calls, fn, file, args, record, timeoutPromise, race, events, langIdx,
                   run, other>>

\* createFieldAsync resolves: the table has the new (empty) field; the record is re-fetched
sync_to_wordpress_Created ==
    /\ pc = "wp_create"
    /\ tableFields' = Append(tableFields, PostIdColumn(args.lang))
    /\ cells' = Extend(cells, PostIdColumn(args.lang), Null)
    /\ createLog' = CreateSettled("created")
    /\ pc' = "wp_reselect"
    /\ UNCHANGED <<calls, fn, file, args, record, posts, fetchPromise, timeoutPromise, race,
                   outcome, raised, events, langIdx>>
    /\ steps' = Append(steps, "created")
    /\ UNCHANGED <<run, other>>

CreateFieldError == "createFieldAsync failed"

\* createFieldAsync rejects: the catch block logs and rethrows
sync_to_wordpress_CreateFailed ==
    /\ pc = "wp_create"
    /\ createLog' = CreateSettled("failed")
    /\ CatchRethrow(CreateFieldError)
    /\ UNCHANGED <<tableFields, cells, calls, fn, file, args, record, posts, fetchPromise,
                   timeoutPromise, race, events, langIdx>>
    /\ steps' = Append(steps, "createFailed")
    /\ UNCHANGED <<run, other>>

\* the second selectRecordAsync resolves: read and POST on the refreshed record
sync_to_wordpress_Reselected ==
    /\ pc = "wp_reselect"
    /\ record' = cells
    /\ sync_to_wordpress_ReadAndPost(cells)
    /\ UNCHANGED <<tableFields, cells, calls, fn, file, args, timeoutPromise, race,
                   events, langIdx, createLog>>
    /\ steps' = steps \o <<"select", "read">>
    /\ UNCHANGED <<run, other>>

\* the endpoint answers the POST of sync_to_wordpress
sync_to_wordpress_Response ==
    /\ pc = "wp_fetch"
    /\ \E s \in Statuses :
        /\ fetchPromise' = Fulfilled(s)
        /\ CheckedAfterFetch(s)
    /\ events' = Append(events, "response")
    /\ UNCHANGED <<tableFields, cells, calls, fn, file, args, record, posts,
                   timeoutPromise, race, langIdx, createLog>>
    /\ UNCHANGED <<run, steps, other>>

\* the POST of sync_to_wordpress fails on the network
sync_to_wordpress_NetworkError ==
    /\ pc = "wp_fetch"
    /\ fetchPromise' = Rejected(NetworkError)
    /\ CatchRethrow(NetworkError)
    /\ events' = Append(events, "neterror")
    /\ UNCHANGED <<tableFields, cells, calls, fn, file, args, record, posts,
                   timeoutPromise, race, langIdx, createLog>>
    /\ UNCHANGED <<run, steps, other>>

---------------------------------------------------------------------------
(* The end of a script run *)

\* the run is over and its environment (pending timer, abandoned request) is discarded
RunEnds ==
    /\ pc = "done"
    /\ fn' = "none"
    /\ file' = "none"
    /\ args' = <<>>
    /\ pc' = "idle"
    /\ record' = <<>>
    /\ posts' = <<>>
    /\ fetchPromise' = NoPromise
    /\ timeoutPromise' = NoPromise
    /\ race' = NoPromise
    /\ outcome' = NoOutcome
    /\ raised' = <<>>
    /\ events' = <<>>
    /\ langIdx' = 0
    /\ run' = 0
    /\ steps' = <<>>
    /\ UNCHANGED <<tableFields, cells, calls, createLog, other>>

Next ==
    \/ create_map_image_Call
    \/ create_map_image_Selected
    \/ create_map_image_Response
    \/ create_map_image_NetworkError
    \/ create_map_image_Timer
    \/ ai_generate_Call
    \/ ai_generate_PromptsSelected
    \/ ai_generate_Selected
    \/ ai_generate_Response
    \/ ai_generate_NetworkError
    \/ google_search_Call
    \/ google_search_Selected
    \/ google_search_Response
    \/ google_search_NetworkError
    \/ crawl_url_content_Call
    \/ crawl_url_content_Selected
    \/ crawl_url_content_Response
    \/ crawl_url_content_NetworkError
    \/ translate_i18n_Call
    \/ translate_i18n_Selected
    \/ translate_i18n_Response
    \/ translate_i18n_NetworkError
    \/ sync_to_wordpress_Call
    \/ sync_to_wordpress_Selected
    \/ sync_to_wordpress_Config
    \/ sync_to_wordpress_Created
    \/ sync_to_wordpress_CreateFailed
    \/ sync_to_wordpress_Reselected
    \/ sync_to_wordpress_Response
    \/ sync_to_wordpress_NetworkError
    \/ RunEnds

Spec == Init /\ [][Next]_vars

---------------------------------------------------------------------------
(* Two script runs on the same table *)

\* the local state of the current run
Context ==
    [fn |-> fn, file |-> file, args |-> args, pc |-> pc, record |-> record,
     posts |-> posts, fetchPromise |-> fetchPromise, timeoutPromise |-> timeoutPromise,
     race |-> race, outcome |-> outcome, raised |-> raised, events |-> events,
     langIdx |-> langIdx, run |-> run, steps |-> steps]

\* the current run stays suspended at its await and the other run is the one to resume
\* (or to start, or to end): the two runs share the table and nothing else
Switch ==
    /\ other # Context
    /\ other' = Context
    /\ fn' = other.fn
    /\ file' = other.file
    /\ args' = other.args
    /\ pc' = other.pc
    /\ record' = other.record
    /\ posts' = other.posts
    /\ fetchPromise' = other.fetchPromise
    /\ timeoutPromise' = other.timeoutPromise
    /\ race' = other.race
    /\ outcome' = other.outcome
    /\ raised' = other.raised
    /\ events' = other.events
    /\ langIdx' = other.langIdx
    /\ run' = other.run
    /\ steps' = other.steps
    /\ UNCHANGED <<tableFields, cells, calls, createLog>>

\* runs of sync_to_wordpress, two of which may be under way at once
NextConcurrent ==
    \/ sync_to_wordpress_Call
    \/ sync_to_wordpress_Selected
    \/ sync_to_wordpress_Config
    \/ sync_to_wordpress_Created
    \/ sync_to_wordpress_CreateFailed
    \/ sync_to_wordpress_Reselected
    \/ sync_to_wordpress_Response
    \/ sync_to_wordpress_NetworkError
    \/ RunEnds
    \/ Switch

SpecConcurrent == Init /\ [][NextConcurrent]_vars

---------------------------------------------------------------------------
(* Runs of create_map_image whose timer fires *)

NextCreateMapImage ==
    \/ create_map_image_Call
    \/ create_map_image_Selected
    \/ create_map_image_Response
    \/ create_map_image_NetworkError
    \/ create_map_image_Timer
    \/ RunEnds

\* the event loop runs the setTimeout callback once TIMEOUT has elapsed; the
\* endpoint is under no obligation to answer
SpecTimerFires ==
    Init /\ [][NextCreateMapImage]_vars /\ WF_vars(create_map_image_Timer)

---------------------------------------------------------------------------
(* Properties *)

\* what the current run has observed
Running(f) == fn = f
Done == pc = "done"
IsFailure(e) == e \in {"failure", "neterror"}
Answered == Cardinality({i \in 1..Len(events) : events[i] \in {"response", "failure", "neterror"}})
InFlight == Len(posts) - Answered
NameCount(columns, name) == Cardinality({i \in 1..Len(columns) : columns[i] = name})

\* a required input of the current run is empty or absent in the record
RequiredInputMissing ==
    CASE fn = "create_map_image" ->
            Falsy(cells[args.tpl_column]) \/ Falsy(cells[args.prompt_column])
      [] fn = "google_search" -> Falsy(cells[args.input_column])
      [] fn = "crawl_url_content" -> Falsy(cells[args.input_column])
      [] fn = "sync_to_wordpress" ->
            Falsy(cells[args.lang]) \/ Falsy(cells[args.author_id_column])
      [] OTHER -> FALSE

\* C1: a run of create_map_image, google_search, crawl_url_content or
\* sync_to_wordpress one of whose required cells is empty or absent issues no
\* POST at any point, and when it ends it has ended with an error.
C1_MissingInputNoPost ==
    RequiredInputMissing =>
        /\ posts = <<>>
        /\ fetchPromise.state = "none"
        /\ pc \notin {"cmi_race", "gs_fetch", "cu_fetch", "wp_fetch"}
        /\ Done => outcome.kind = "error"

\* C1 witness: create_map_image with a template and an empty prompt has failed
C1_Witness ==
    /\ Running("create_map_image") /\ Done
    /\ ~Falsy(cells[args.tpl_column]) /\ Falsy(cells[args.prompt_column])
    /\ outcome = Thrown("Missing template or prompt")
    /\ posts = <<>>

\* C2 (as claimed): for every job, a run whose POST was answered with a non-2xx
\* status before anything else ended the run has failed with an error carrying
\* that status.
C2_NonOkStatusFails ==
    /\ fn # "none" /\ Done
    /\ fetchPromise.state = "fulfilled" /\ ~ResponseOk(fetchPromise.status)
    /\ events[1] # "timer"
    => /\ outcome.kind = "error"
       /\ outcome.msg \in {StatusError(fetchPromise.status),
                           TranslateStatusError(fetchPromise.status)}

\* C3: in create_map_image, when the timer fires before any response the run
\* fails with the timed-out error; when a 200 response arrives before the timer
\* fires the run succeeds; both whatever happens afterwards.
C3_TimeoutRace ==
    Running("create_map_image") /\ events # <<>> =>
        /\ events[1] = "timer" => Done /\ outcome = Thrown("Request timed out after 120 seconds")
        /\ (events[1] = "response" /\ fetchPromise.status = 200) => Done /\ outcome = Returned

\* C3 witness: the 200 response came first, the timer fired afterwards, the run succeeded
C3_Witness ==
    /\ Running("create_map_image")
    /\ events = <<"response", "timer">>
    /\ fetchPromise = Fulfilled(200)
    /\ timeoutPromise.state = "rejected"
    /\ outcome = Returned

\* C4: in translate_i18n with N languages, in every state at most one request is
\* in flight (a request is issued only after every earlier one was answered), the
\* i-th POST carries output_column = languages[i].column, and a run in which
\* every sub-request succeeded ends with exactly N POSTs.
C4_TranslateSequential ==
    Running("translate_i18n") =>
        /\ InFlight <= 1
        /\ Len(posts) <= Len(args.languages)
        /\ \A i \in 1..Len(posts) :
            /\ posts[i].body.output_column = args.languages[i].column
            /\ posts[i].method = "POST"
        /\ (Done /\ \A i \in 1..Len(events) : events[i] = "response") =>
            /\ Len(posts) = Len(args.languages)
            /\ Len(events) = Len(args.languages)
            /\ outcome = Returned

\* C4 witness: two different languages, both translated, the run returned
C4_Witness ==
    /\ Running("translate_i18n") /\ Done
    /\ Len(args.languages) = 2
    /\ args.languages[1] # args.languages[2]
    /\ Len(posts) = 2
    /\ outcome = Returned

\* C5: in translate_i18n, when the sub-request of the k-th language fails (a
\* network error or a non-2xx status) the run has ended with that error and
\* exactly k POSTs were issued, one per language 1..k and each once.
C5_TranslateStopsAtFailure ==
    Running("translate_i18n") =>
        \A k \in 1..Len(events) :
            IsFailure(events[k]) =>
                /\ Done /\ outcome.kind = "error"
                /\ k = Len(events)
                /\ Len(posts) = k
                /\ \A i \in 1..k : posts[i].body.output_column = args.languages[i].column
                /\ outcome.msg = (IF events[k] = "neterror" THEN NetworkError
                                  ELSE TranslateStatusError(fetchPromise.status))

\* C5 witness: the first of two languages failed with a non-2xx status
C5_Witness ==
    /\ Running("translate_i18n") /\ Done
    /\ Len(args.languages) = 2
    /\ events = <<"failure">>
    /\ Len(posts) = 1
    /\ outcome = Thrown("HTTP error! status: 500")

\* the createFieldAsync calls made so far for field `name`
CreateCalls(name) == {i \in 1..Len(createLog) : createLog[i].name = name}
PastConfig == pc \in {"wp_create", "wp_reselect", "wp_fetch", "done"}

\* what holds of sequential runs of sync_to_wordpress whatever createFieldAsync answers:
\* a run past its existence check on a table lacking the field has invoked
\* createField, a run never invokes it twice, and no field name is held twice
C6_Provisioning ==
    /\ \A name \in Range(tableFields) : NameCount(tableFields, name) = 1
    /\ \A i, j \in 1..Len(createLog) : createLog[i].call = createLog[j].call => i = j
    /\ (Running("sync_to_wordpress") /\ PastConfig) =>
            \/ \E i \in CreateCalls(PostIdColumn(args.lang)) : createLog[i].call = calls
            \/ ColumnExists(tableFields, PostIdColumn(args.lang))

\* C6 (as claimed): over sequential runs of sync_to_wordpress the first run on a
\* table lacking post_id_<lang> invokes createField and no later run with that
\* lang invokes it again; the table holds at most one field of that name.
C6_SecondCallNeverCreates ==
    /\ C6_Provisioning
    /\ \A l \in Langs : Cardinality(CreateCalls(PostIdColumn(l))) <= 1

\* C6 (amended): as claimed, except that a later run with that lang invokes
\* createField again exactly when every earlier createField for it failed: the
\* field is created at most once, and once it is created no run invokes
\* createField for it.
C6_CreatedAtMostOnce ==
    /\ C6_Provisioning
    /\ \A l \in Langs :
        LET name == PostIdColumn(l) IN
        /\ Cardinality({i \in CreateCalls(name) : createLog[i].state = "created"}) <= 1
        /\ \A i, j \in CreateCalls(name) : i < j => createLog[i].state = "failed"
        /\ \A i \in CreateCalls(name) :
            createLog[i].state = "created" => ColumnExists(tableFields, name)

\* C6 witness: the first run created post_id_fr; the second run, with the same
\* lang, is past its existence check and has not invoked createField
C6_Witness ==
    /\ Running("sync_to_wordpress") /\ calls = 2 /\ pc = "wp_fetch"
    /\ args.lang = "fr"
    /\ createLog = <<[call |-> 1, name |-> "post_id_fr", state |-> "created"]>>
    /\ NameCount(tableFields, "post_id_fr") = 1

\* the field of the POST body that names the output field, per job
OutputFieldSent(i) ==
    IF fn = "sync_to_wordpress" THEN posts[i].body.post_id_column
    ELSE posts[i].body.output_column
OutputFieldAsked(i) ==
    CASE fn = "sync_to_wordpress" -> "post_id_" \o args.lang
      [] fn = "translate_i18n" -> args.languages[i].column
      [] OTHER -> args.output_column

\* C7: the body of every POST holds base_id, table_id and record_id equal to the
\* arguments of the run, and the output field name verbatim (output_column,
\* language.column for translate, post_id_<lang> as post_id_column for the sync).
C7_PayloadIdentifiers ==
    \A i \in 1..Len(posts) :
        /\ posts[i].body.base_id = args.base_id
        /\ posts[i].body.table_id = args.table_id
        /\ posts[i].body.record_id = args.record_id
        /\ OutputFieldSent(i) = OutputFieldAsked(i)

\* C7 witness: the sync of the French content has issued its POST
C7_Witness ==
    /\ Running("sync_to_wordpress") /\ args.lang = "fr" /\ args.base_id = "app2"
    /\ Len(posts) = 1
    /\ posts[1].body.post_id_column = "post_id_fr"

\* C8: a run of ai_generate whose system_prompt_name names no row of the Prompts
\* table issues no POST and ends with 'Failed to retrieve system prompt: <name>'.
C8_MissingPromptNoPost ==
    (Running("ai_generate")
        /\ \A i \in 1..Len(PromptsTable) : PromptsTable[i].Name # args.system_prompt_name) =>
        /\ posts = <<>>
        /\ pc \in {"ag_prompts", "done"}
        /\ Done => outcome = Thrown("Failed to retrieve system prompt: " \o args.system_prompt_name)

\* C8 witness: ai_generate was called with a prompt name that no row has, and failed
C8_Witness ==
    /\ Running("ai_generate") /\ Done
    /\ args.system_prompt_name = "absent"
    /\ outcome = Thrown("Failed to retrieve system prompt: absent")
    /\ posts = <<>>

SingleJobs == {"create_map_image", "ai_generate", "google_search", "crawl_url_content",
               "sync_to_wordpress"}

DecidedBy(e, status) ==
    CASE e = "timer" -> Thrown("Request timed out after 120 seconds")
      [] e = "neterror" -> Thrown(NetworkError)
      [] e = "response" -> IF ResponseOk(status) THEN Returned
                           ELSE Thrown("API request failed with status " \o ToString(status))

\* C10: in create_map_image the first of the racing events decides the outcome
\* and the later one changes nothing: no outcome change, no further error, no
\* further POST; a timeout leaves the request in flight (it is not cancelled).
C10_RaceDecidedOnce ==
    (Running("create_map_image") /\ events # <<>>) =>
        /\ Done
        /\ outcome = DecidedBy(events[1], fetchPromise.status)
        /\ Len(events) <= 2
        /\ Len(posts) = 1
        /\ Len(raised) <= 1
        /\ events = <<"timer">> => fetchPromise.state = "pending"
        /\ events = <<"response">> => timeoutPromise.state = "pending"

\* C10 witness: the timer fired first and a 500 response arrived afterwards
C10_Witness ==
    /\ Running("create_map_image")
    /\ events = <<"timer", "response">>
    /\ fetchPromise = Fulfilled(500)
    /\ outcome = Thrown("Request timed out after 120 seconds")

\* the positions of a store call in the steps of the current run
StepIndex(name) == {i \in 1..Len(steps) : steps[i] = name}

\* C11: in every run of sync_to_wordpress the existence check (getConfig)
\* precedes createField; the post-id cell is read only when the table holds the
\* field and, when this run created it, from a record selected after the
\* creation; when createField fails the run fails without a read and without a POST.
C11_SyncOrdering ==
    Running("sync_to_wordpress") =>
        /\ \A i \in StepIndex("createField") : \E j \in StepIndex("getConfig") : j < i
        /\ \A i \in StepIndex("read") :
            /\ ColumnExists(tableFields, "post_id_" \o args.lang)
            /\ \E j \in StepIndex("getConfig") : j < i
            /\ \A c \in StepIndex("created") :
                /\ c < i
                /\ \E j \in StepIndex("select") : c < j /\ j < i
                /\ ("post_id_" \o args.lang) \in DOMAIN record
        /\ posts # <<>> => StepIndex("read") # {}
        /\ StepIndex("createFailed") # {} =>
            /\ StepIndex("read") = {}
            /\ posts = <<>>
            /\ Done /\ outcome.kind = "error"

\* C11 witness: the run checked, created the field, re-fetched the record, read
\* the cells and issued its POST
C11_Witness ==
    /\ Running("sync_to_wordpress")
    /\ steps = <<"select", "getConfig", "createField", "created", "select", "read">>
    /\ pc = "wp_fetch"

\* two runs of sync_to_wordpress with the same lang are under way
TwoSyncRuns ==
    /\ Running("sync_to_wordpress")
    /\ other.fn = "sync_to_wordpress"
    /\ other.args.lang = args.lang

\* C12 (as claimed): while two runs of sync_to_wordpress with the same lang are
\* under way, whatever their interleaving, createField for post_id_<lang> has
\* been invoked at most once by the two together (calls that failed aside).
C12_CreateFieldOnce ==
    TwoSyncRuns =>
        Cardinality({i \in CreateCalls(PostIdColumn(args.lang)) :
                        /\ createLog[i].call \in {run, other.run}
                        /\ createLog[i].state # "failed"}) <= 1

\* the current run of sync_to_wordpress found the table without post_id_<lang>
\* (it invoked createField) and its content cell or its author-id cell is empty
ProvisioningWithMissingInput ==
    /\ Running("sync_to_wordpress")
    /\ StepIndex("createField") # {}
    /\ Falsy(cells[args.lang]) \/ Falsy(cells[args.author_id_column])

\* the validation error of the current run: the content is checked first
ValidationError ==
    IF Falsy(cells[args.lang]) THEN "No content found" ELSE "No author ID found"

\* C13 (as claimed): a run of sync_to_wordpress on a table lacking post_id_<lang>
\* whose content or author-id cell is empty ends having created the field, with
\* 'No content found' (checked first) or 'No author ID found', and without a POST.
C13_CreatesThenFailsValidation ==
    ProvisioningWithMissingInput =>
        /\ posts = <<>>
        /\ Done =>
            /\ ColumnExists(tableFields, "post_id_" \o args.lang)
            /\ outcome = Thrown(ValidationError)

\* C13 (amended): such a run first invokes createField and never issues a POST;
\* when the creation fails it ends with that error and no field; when the
\* creation succeeds the field stays in the table, the cells are read after
\* it, and the run ends with the validation error (content first) if the
\* refreshed record holds post_id_en, which is read before the validation, and
\* with the error of that read if it does not.
C13_ProvisioningBeforeValidation ==
    ProvisioningWithMissingInput =>
        /\ posts = <<>>
        /\ \A i \in StepIndex("read") : \E c \in StepIndex("created") : c < i
        /\ StepIndex("created") # {} => ColumnExists(tableFields, "post_id_" \o args.lang)
        /\ StepIndex("createFailed") # {} =>
            /\ Done /\ outcome = Thrown(CreateFieldError)
            /\ ~ColumnExists(tableFields, "post_id_" \o args.lang)
        /\ Done =>
            /\ outcome.kind = "error"
            /\ StepIndex("created") # {} =>
                outcome = Thrown(IF "post_id_en" \in DOMAIN record
                                 THEN ValidationError
                                 ELSE "No field matching post_id_en")

\* C13 witness: the run created post_id_de and then failed for its empty content,
\* although its author-id cell is empty too
C13_Witness ==
    /\ Running("sync_to_wordpress") /\ Done
    /\ args.lang = "de" /\ args.author_id_column = "unset"
    /\ steps = <<"select", "getConfig", "createField", "created", "select", "read">>
    /\ ColumnExists(tableFields, "post_id_de")
    /\ outcome = Thrown("No content found")
    /\ posts = <<>>

\* C14: once create_map_image has passed its validation and issued its POST, the
\* run eventually ends, with success or with an error, also when the endpoint
\* never answers, provided the timer fires.
C14_EventuallyCompletes ==
    (Running("create_map_image") /\ Len(posts) = 1)
        ~> (Running("create_map_image") /\ Done /\ outcome.kind \in {"ok", "error"})

\* C14 witness: the endpoint has not answered and the timer has ended the run
C14_Witness ==
    /\ Running("create_map_image") /\ Done
    /\ events = <<"timer">>
    /\ fetchPromise.state = "pending"
    /\ outcome = Thrown("Request timed out after 120 seconds")

\* the payload fields of the AI-generate POST
AiGeneratePayloadFields ==
    {"base_id", "table_id", "record_id", "output_column", "model",
     "system_prompt", "user_msg", "openai_json_format"}

\* C15: every per-language POST of translate_i18n, in either copy, carries the
\* payload fields of the AI-generate POST, with the language's column as
\* output_column.
C15_TranslatePayloadFields ==
    Running("translate_i18n") =>
        \A i \in 1..Len(posts) :
            /\ DOMAIN posts[i].body = AiGeneratePayloadFields
            /\ posts[i].body.output_column = args.languages[i].column

====
